---- MODULE Spec2Model ----
(***************************************************************************)
(* Model of the diabetes risk prediction pipeline:                         *)
(*   src/diabetes_predictor.py  DiabetesPredictor (load_model,             *)
(*       validate_input, predict_single, _get_recommendations,             *)
(*       predict_batch)                                                    *)
(*   src/app.py                 predict (the /predict request handler)     *)
(*                                                                         *)
(* Representation choices.                                                 *)
(*  - A field value is a record [kind, val]: kind "num" is a Python int or *)
(*    float with value val, "nan" is float('nan'), "str" a non-numeric     *)
(*    string, "null" is None.  Measurements are integer valued here; every *)
(*    bound of validate_input is an integer.                               *)
(*  - A probability is held in hundredths (0.3 is 30, 0.7 is 70).          *)
(*  - The classifier and the scaler are external: what they return or      *)
(*    whether they raise is an input of each call (env).                   *)
(*  - timestamp and probability_percent of the result dict are left out.   *)
(***************************************************************************)
EXTENDS Integers, Sequences, FiniteSets, TLC

(* ------------------------------------------------------------------ *)
(* Bounds of the model                                                 *)
(* ------------------------------------------------------------------ *)
MaxBatch == 3

MaxDeviations == 2

(* ------------------------------------------------------------------ *)
(* Values                                                              *)
(* ------------------------------------------------------------------ *)
Num(n) == [kind |-> "num", val |-> n]

NaN == [kind |-> "nan", val |-> 0]

Str == [kind |-> "str", val |-> 0]

Null == [kind |-> "null", val |-> 0]

(* __init__: self.feature_names *)
feature_names ==
  << "Pregnancies", "Glucose", "BloodPressure", "SkinThickness",
     "Insulin", "BMI", "DiabetesPedigreeFunction", "Age" >>

(* validate_input: the validations dict, in insertion order *)
validations ==
  << <<"Pregnancies", 0, 20>>, <<"Glucose", 50, 300>>,
     <<"BloodPressure", 40, 200>>, <<"SkinThickness", 0, 100>>,
     <<"Insulin", 0, 900>>, <<"BMI", 10, 60>>,
     <<"DiabetesPedigreeFunction", 0, 3>>, <<"Age", 10, 120>> >>

(* isinstance(value, (int, float)) *)
IsIntOrFloat(value) == value.kind \in {"num", "nan"}

(* InRange with the upper bound excluded *)
InRangeExclusiveMax(value, min_val, max_val) ==
  /\ value.kind = "num"
  /\ min_val <= value.val
  /\ value.val < max_val

(* min_val <= value <= max_val; every comparison with NaN is False *)
InRange(value, min_val, max_val) ==
  /\ value.kind = "num"
  /\ min_val <= value.val
  /\ value.val <= max_val

(* the test of line 95 for one entry of validations *)
ValueRejected(data, v) ==
  \/ ~IsIntOrFloat(data[v[1]])
  \/ ~InRange(data[v[1]], v[2], v[3])

MinOf(S) == CHOOSE x \in S : \A y \in S : x <= y

(* validate_input(data): [ok, printed]; printed is the message of the one
   print the call makes, <<>> when it makes none *)
validate_input(data) ==
  LET missing == {i \in 1..Len(feature_names) : feature_names[i] \notin DOMAIN data}
      bad == {i \in 1..Len(validations) : ValueRejected(data, validations[i])}
  IN  IF missing # {}
      THEN [ok |-> FALSE,
            printed |-> <<"not_found", feature_names[MinOf(missing)]>>]
      ELSE IF bad # {}
      THEN LET v == validations[MinOf(bad)]
           IN  [ok |-> FALSE,
                printed |-> <<"not_valid", v[1], data[v[1]], v[2], v[3]>>]
      ELSE [ok |-> TRUE, printed |-> <<>>]

(* ------------------------------------------------------------------ *)
(* predict_single and its helpers                                      *)
(* ------------------------------------------------------------------ *)

(* probability thresholds of predict_single, in hundredths *)
LowThreshold == 30

HighThreshold == 70

(* RiskCategory with <= in place of < *)
RiskCategoryInclusive(probability) ==
  IF probability <= LowThreshold THEN "Low Risk"
  ELSE IF probability <= HighThreshold THEN "Medium Risk"
  ELSE "High Risk"

(* the if / elif / else of lines 137-145 *)
RiskCategory(probability) ==
  IF probability < LowThreshold THEN "Low Risk"
  ELSE IF probability < HighThreshold THEN "Medium Risk"
  ELSE "High Risk"

RiskColor(probability) ==
  IF probability < LowThreshold THEN "green"
  ELSE IF probability < HighThreshold THEN "yellow"
  ELSE "red"

base_recommendations ==
  << "Maintain healthy diet with balanced nutrition",
     "Regular physical exercise (150 minutes/week)",
     "Monitor blood glucose regularly",
     "Maintain healthy weight" >>

(* _get_recommendations with the category items put before the base items *)
GetRecommendationsCategoryFirst(risk_category) ==
  IF risk_category = "High Risk"
  THEN << "[!] Immediate consultation with endocrinologist recommended",
          "Consider HbA1c and oral glucose tolerance test",
          "Strict diet modification and lifestyle changes",
          "Monthly follow-up appointments" >> \o base_recommendations
  ELSE IF risk_category = "Medium Risk"
  THEN << "Schedule follow-up in 3-6 months",
          "Consider dietary consultation",
          "Increase physical activity intensity",
          "Monitor BMI and blood pressure" >> \o base_recommendations
  ELSE << "Continue healthy lifestyle",
          "Annual screening recommended",
          "Maintain current health status" >> \o base_recommendations

(* the source's string starts with a warning sign, written [!] here *)
_get_recommendations(risk_category) ==
  IF risk_category = "High Risk"
  THEN base_recommendations \o
       << "[!] Immediate consultation with endocrinologist recommended",
          "Consider HbA1c and oral glucose tolerance test",
          "Strict diet modification and lifestyle changes",
          "Monthly follow-up appointments" >>
  ELSE IF risk_category = "Medium Risk"
  THEN base_recommendations \o
       << "Schedule follow-up in 3-6 months",
          "Consider dietary consultation",
          "Increase physical activity intensity",
          "Monitor BMI and blood pressure" >>
  ELSE base_recommendations \o
       << "Continue healthy lifestyle",
          "Annual screening recommended",
          "Maintain current health status" >>

(* NeedsScaling with SVC left out of the list *)
NeedsScalingLogisticOnly(model_name) == model_name \in {"LogisticRegression"}

(* model_name in ['LogisticRegression', 'SVC'] *)
NeedsScaling(model_name) == model_name \in {"LogisticRegression", "SVC"}

(* np.array([[ ... ]]): the eight values in the order of lines 116-123 *)
InputArray(patient_data) ==
  [i \in 1..Len(feature_names) |-> patient_data[feature_names[i]].val]

(* The stages a call went through, in execution order. *)
StagesTo(model_name, last) ==
  LET all == IF NeedsScaling(model_name)
             THEN <<"validate", "build", "decide", "transform", "score",
                    "categorize", "recommend", "assemble">>
             ELSE <<"validate", "build", "decide", "score",
                    "categorize", "recommend", "assemble">>
      n == CHOOSE k \in 1..Len(all) : all[k] = last
  IN  SubSeq(all, 1, n)

(* ScoreRaises with every exception swallowed *)
ScoreRaisesNever(model_name, env) == FALSE

(* lines 128-134: does scaler.transform, model.predict or
   model.predict_proba raise during this call *)
ScoreRaises(model_name, env) ==
  \/ NeedsScaling(model_name) /\ env.scaler = "raise"
  \/ env.clf = "raise"

(* predict_single(patient_data) on a predictor whose model has the type
   name model_name.  env.scaler is "ok" or "raise" (scaler.transform),
   env.clf is "ok" or "raise" (model.predict / predict_proba), and
   env.prediction, env.probability are what the classifier returns.
   ret is "None", "raise" (an exception leaves the call) or "result";
   value holds the returned dict when ret = "result". *)
predict_single(model_name, patient_data, env) ==
  LET v == validate_input(patient_data)
      scaled == NeedsScaling(model_name)
      passed == [scaled |-> scaled, array |-> InputArray(patient_data)]
      risk_category == RiskCategory(env.probability)
  IN  IF ~v.ok
      THEN [ret |-> "None", value |-> <<>>, printed |-> v.printed,
            stages |-> <<"validate">>, passed |-> <<>>]
      ELSE IF ScoreRaises(model_name, env)
      THEN IF scaled /\ env.scaler = "raise"
           THEN [ret |-> "raise", value |-> <<>>, printed |-> <<>>,
                 stages |-> StagesTo(model_name, "transform"), passed |-> <<>>]
           ELSE [ret |-> "raise", value |-> <<>>, printed |-> <<>>,
                 stages |-> StagesTo(model_name, "score"), passed |-> <<passed>>]
      ELSE [ret |-> "result",
            value |-> << [prediction |-> env.prediction,
                          prediction_label |->
                            IF env.prediction = 1 THEN "Diabetes" ELSE "No Diabetes",
                          probability |-> env.probability,
                          risk_category |-> risk_category,
                          risk_color |-> RiskColor(env.probability),
                          recommendations |-> _get_recommendations(risk_category)] >>,
            printed |-> <<>>,
            stages |-> StagesTo(model_name, "assemble"),
            passed |-> <<passed>>]

(* ------------------------------------------------------------------ *)
(* Inputs                                                              *)
(* ------------------------------------------------------------------ *)
FieldSet == {feature_names[i] : i \in 1..Len(feature_names)}

FieldIndex(f) == CHOOSE i \in 1..Len(feature_names) : feature_names[i] = f

(* a complete, valid record (scenario A of the specification, rounded) *)
RecValid ==
  [f \in FieldSet |-> Num(<<1, 85, 66, 29, 0, 27, 1, 31>>[FieldIndex(f)])]

(* the ways one field of a record can deviate from RecValid *)
DevKinds == {"absent", "str", "nan", "null", "below", "min", "max", "above"}

DevValue(i, kind) ==
  CASE kind = "str" -> Str
    [] kind = "nan" -> NaN
    [] kind = "null" -> Null
    [] kind = "below" -> Num(validations[i][2] - 1)
    [] kind = "min" -> Num(validations[i][2])
    [] kind = "max" -> Num(validations[i][3])
    [] kind = "above" -> Num(validations[i][3] + 1)

(* RecValid with the fields of DOMAIN g changed as g says *)
Deviate(g) ==
  [f \in {h \in FieldSet : FieldIndex(h) \notin DOMAIN g
                           \/ g[FieldIndex(h)] # "absent"} |->
     IF FieldIndex(f) \in DOMAIN g
     THEN DevValue(FieldIndex(f), g[FieldIndex(f)])
     ELSE RecValid[f]]

(* every record that differs from RecValid in at most MaxDeviations fields *)
Records ==
  UNION { {Deviate(g) : g \in [S -> DevKinds]} :
          S \in {T \in SUBSET (1..Len(feature_names)) : Cardinality(T) <= MaxDeviations} }

(* the records the calls of the main specification are made with *)
SampleRecords ==
  { RecValid,
    Deviate(1 :> "min" @@ 2 :> "min" @@ 8 :> "max"),
    Deviate(5 :> "absent"),
    Deviate(8 :> "above"),
    Deviate(2 :> "str"),
    Deviate(6 :> "nan") }

Probabilities == {0, 29, 30, 50, 69, 70, 100}

(* what the scaler and the classifier do during one call *)
Envs ==
  [scaler : {"ok"}, clf : {"ok"}, prediction : {0, 1}, probability : Probabilities]
  \cup [scaler : {"ok", "raise"}, clf : {"raise"}, prediction : {0}, probability : {0}]
  \cup [scaler : {"raise"}, clf : {"ok"}, prediction : {1}, probability : {70}]

(* the rows a batch file is made of: a record and what scoring it does *)
BatchRows ==
  [data : {RecValid}, env : [scaler : {"ok"}, clf : {"ok"}, prediction : {0},
                             probability : {29, 30}]]
  \cup [data : {RecValid}, env : [scaler : {"ok"}, clf : {"ok"}, prediction : {1},
                                  probability : {70}]]
  \cup [data : {RecValid}, env : [scaler : {"ok"}, clf : {"raise"}, prediction : {0},
                                  probability : {0}]]
  \cup [data : {RecValid}, env : [scaler : {"raise"}, clf : {"ok"}, prediction : {1},
                                  probability : {70}]]
  \cup [data : {Deviate(5 :> "absent"), Deviate(8 :> "above")},
        env : [scaler : {"ok"}, clf : {"ok"}, prediction : {0}, probability : {29}]]

ModelNames == {"LogisticRegression", "SVC", "RandomForestClassifier"}

(* ------------------------------------------------------------------ *)
(* State                                                               *)
(* ------------------------------------------------------------------ *)
VARIABLES
  alive,        \* FALSE once load_model has called sys.exit(1)
  model,        \* type(self.model).__name__ of the loaded classifier
  paths,        \* what was handed to the classifier since the last load:
                \* "scaled" and/or "raw"
  call,         \* the latest single-record call and its outcome
  pc,           \* predict_batch: "idle", "loop" (inside the for), "done"
  df_len,       \* len(df)
  idx,          \* rows of df the loop has consumed
  output_path,  \* "none" or "path"
  results,      \* the local list results
  skipped,      \* patient ids (idx + 1) whose predict_single returned None
  persisted,    \* <<>> or <<rows written by to_csv>>
  counts,       \* <<>> or <<[high_risk, medium_risk, low_risk]>>
  summary,      \* <<>> or <<the three percentages printed, in tenths>>
  error,        \* "" or what the except clause of predict_batch caught
  returned      \* <<>> while running, <<"None">> or <<"list", results>>

batchVars ==
  <<pc, df_len, idx, output_path, results, skipped, persisted, counts,
    summary, error, returned>>

vars == <<alive, model, paths, call, batchVars>>

NoCall ==
  [op |-> "none", data |-> <<>>, env |-> <<>>, ret |-> "none", value |-> <<>>,
   printed |-> <<>>, stages |-> <<>>, passed |-> <<>>, status |-> 0,
   body |-> ""]

(* The state holds the latest top-level call only: the locals and the
   return value of an earlier call are gone once the next call starts.
   BatchIdle: no predict_batch call is in progress and none is the latest. *)
BatchIdle ==
  /\ pc' = "idle"
  /\ df_len' = 0
  /\ idx' = 0
  /\ output_path' = "none"
  /\ results' = <<>>
  /\ skipped' = {}
  /\ persisted' = <<>>
  /\ counts' = <<>>
  /\ summary' = <<>>
  /\ error' = ""
  /\ returned' = <<>>

(* main() and initialize_predictor() construct the predictor with both
   paths, so the first load_model has run when the first call is made *)
Init ==
  /\ alive = TRUE
  /\ model \in ModelNames
  /\ paths = {}
  /\ call = NoCall
  /\ pc = "idle"
  /\ df_len = 0
  /\ idx = 0
  /\ output_path = "none"
  /\ results = <<>>
  /\ skipped = {}
  /\ persisted = <<>>
  /\ counts = <<>>
  /\ summary = <<>>
  /\ error = ""
  /\ returned = <<>>

(* what one predict_single call adds to paths *)
PathsAfter(r) ==
  paths \cup {IF r.passed[i].scaled THEN "scaled" ELSE "raw" : i \in 1..Len(r.passed)}

(* ------------------------------------------------------------------ *)
(* load_model                                                          *)
(* ------------------------------------------------------------------ *)
load_model(name, ok) ==
  /\ alive
  /\ pc # "loop"
  /\ IF ok
     THEN /\ model' = name
          /\ paths' = {}
          /\ UNCHANGED alive
     ELSE /\ alive' = FALSE
          /\ UNCHANGED <<model, paths>>
  /\ call' = NoCall
  /\ BatchIdle

(* ------------------------------------------------------------------ *)
(* predict_single called directly (interactive_mode, or any caller)    *)
(* ------------------------------------------------------------------ *)
PredictSingleCall(patient_data, env) ==
  /\ alive
  /\ pc # "loop"
  /\ LET r == predict_single(model, patient_data, env)
     IN  /\ call' = [op |-> "predict_single", data |-> <<patient_data>>,
                     env |-> <<env>>, ret |-> r.ret, value |-> r.value, printed |-> r.printed,
                     stages |-> r.stages, passed |-> r.passed, status |-> 0,
                     body |-> ""]
         /\ paths' = PathsAfter(r)
  /\ UNCHANGED <<alive, model>>
  /\ BatchIdle

(* ------------------------------------------------------------------ *)
(* app.py: predict, the /predict request handler                       *)
(* ------------------------------------------------------------------ *)
required_fields ==
  << "pregnancies", "glucose", "blood_pressure", "skin_thickness",
     "insulin", "bmi", "diabetes_pedigree", "age" >>

(* field.replace('_', '').title() if field != 'bmi' else 'BMI' *)
TitleKey(field) ==
  CASE field = "pregnancies" -> "Pregnancies"
    [] field = "glucose" -> "Glucose"
    [] field = "blood_pressure" -> "Bloodpressure"
    [] field = "skin_thickness" -> "Skinthickness"
    [] field = "insulin" -> "Insulin"
    [] field = "bmi" -> "BMI"
    [] field = "diabetes_pedigree" -> "Diabetespedigree"
    [] field = "age" -> "Age"

(* the keys of patient_data that lines 84-91 read, in feature order *)
PredictionKeys ==
  << "Pregnancies", "Glucose", "Bloodpressure", "Skinthickness",
     "Insulin", "BMI", "Diabetespedigree", "Age" >>

(* float(x): a number stays, the string "nan" becomes NaN *)
Float(raw) == IF raw.kind = "nan" THEN NaN ELSE Num(raw.val)

(* the request body a client would send for a record *)
ToPayload(rec) ==
  [f \in {required_fields[FieldIndex(g)] : g \in DOMAIN rec} |->
     rec[feature_names[CHOOSE i \in 1..Len(required_fields) : required_fields[i] = f]]]

WebPayloads == {ToPayload(rec) : rec \in SampleRecords \cup {Deviate(3 :> "null")}}

(* the response of predict(): [ret, value, printed, stages, passed, status, body] *)
PredictResponse(model_name, data, env) ==
  LET stop == {i \in 1..Len(required_fields) :
                 \/ required_fields[i] \notin DOMAIN data
                 \/ data[required_fields[i]].kind \in {"str", "null"}}
      failed(status, body) ==
        [ret |-> "error", value |-> <<>>, printed |-> <<>>, stages |-> <<>>,
         passed |-> <<>>, status |-> status, body |-> body]
  IN  IF stop # {}
      THEN LET field == required_fields[MinOf(stop)]
           IN  IF field \notin DOMAIN data THEN failed(400, "Missing field")
               ELSE IF data[field].kind = "str" THEN failed(400, "Invalid value")
               ELSE failed(500, "Prediction failed")
      ELSE LET patient_data ==
                 [k \in {TitleKey(required_fields[i]) : i \in 1..Len(required_fields)} |->
                    Float(data[CHOOSE f \in DOMAIN data : TitleKey(f) = k])]
           IN  IF \E i \in 1..Len(PredictionKeys) : PredictionKeys[i] \notin DOMAIN patient_data
               THEN failed(500, "Prediction failed")
               ELSE LET prediction_data ==
                          [f \in FieldSet |-> patient_data[PredictionKeys[FieldIndex(f)]]]
                        r == predict_single(model_name, prediction_data, env)
                        status == IF r.ret = "None" THEN 400
                                  ELSE IF r.ret = "raise" THEN 500 ELSE 200
                        body == IF r.ret = "None" THEN "Invalid input data"
                                ELSE IF r.ret = "raise" THEN "Prediction failed"
                                ELSE "success"
                    IN  [ret |-> r.ret, value |-> r.value, printed |-> r.printed,
                         stages |-> r.stages, passed |-> r.passed,
                         status |-> status, body |-> body]

predict(data, env) ==
  /\ alive
  /\ pc # "loop"
  /\ LET r == PredictResponse(model, data, env)
     IN  /\ call' = [op |-> "predict", data |-> <<data>>, env |-> <<env>>,
                     ret |-> r.ret,
                     value |-> r.value, printed |-> r.printed,
                     stages |-> r.stages, passed |-> r.passed,
                     status |-> r.status, body |-> r.body]
         /\ paths' = PathsAfter(r)
  /\ UNCHANGED <<alive, model>>
  /\ BatchIdle

(* ------------------------------------------------------------------ *)
(* predict_batch                                                       *)
(* ------------------------------------------------------------------ *)

(* CountCategory that looks for 'Medium' where the dict holds 'Medium Risk' *)
CountCategoryMediumTypo(rs, category) ==
  Cardinality({i \in 1..Len(rs) :
     rs[i].risk_category = (IF category = "Medium Risk" THEN "Medium" ELSE category)})

(* sum(1 for r in results if r['risk_category'] == category) *)
CountCategory(rs, category) ==
  Cardinality({i \in 1..Len(rs) : rs[i].risk_category = category})

(* count / len(results) * 100 printed with one decimal, in tenths of a
   percent (no batch of the bounded sizes falls on a rounding tie) *)
Percent(count, n) == (count * 2000 + n) \div (2 * n)

(* df = pd.read_csv(csv_path); results = [] : the call enters the loop,
   or read_csv raises and the except clause returns None *)
predict_batch_start(n, out, readable) ==
  /\ alive
  /\ pc # "loop"
  /\ call' = NoCall
  /\ UNCHANGED <<alive, model, paths>>
  /\ df_len' = IF readable THEN n ELSE 0
  /\ idx' = 0
  /\ output_path' = out
  /\ results' = <<>>
  /\ skipped' = {}
  /\ persisted' = <<>>
  /\ counts' = <<>>
  /\ summary' = <<>>
  /\ IF readable
     THEN /\ pc' = "loop"
          /\ error' = ""
          /\ returned' = <<>>
     ELSE /\ pc' = "done"
          /\ error' = "read_csv"
          /\ returned' = <<"None">>

(* one iteration of for idx, row in df.iterrows() *)
predict_batch_row(row) ==
  /\ pc = "loop"
  /\ idx < df_len
  /\ LET r == predict_single(model, row.data, row.env)
     IN  /\ paths' = PathsAfter(r)
         /\ IF r.ret = "raise"
            THEN /\ pc' = "done"
                 /\ error' = "inference"
                 /\ returned' = <<"None">>
                 /\ UNCHANGED <<idx, results, skipped>>
            ELSE /\ idx' = idx + 1
                 /\ results' = IF r.ret = "result"
                               THEN Append(results, [patient_id |-> idx + 1] @@ r.value[1])
                               ELSE results
                 /\ skipped' = IF r.ret = "result" THEN skipped ELSE skipped \cup {idx + 1}
                 /\ UNCHANGED <<pc, error, returned>>
  /\ UNCHANGED <<alive, model, call, df_len, output_path, persisted, counts, summary>>

(* after the loop: save, summary, return (lines 213-238) *)
predict_batch_finish(write_ok) ==
  /\ pc = "loop"
  /\ idx = df_len
  /\ pc' = "done"
  /\ IF output_path = "path" /\ ~write_ok
     THEN /\ error' = "persist"
          /\ returned' = <<"None">>
          /\ UNCHANGED <<persisted, counts, summary>>
     ELSE /\ persisted' = IF output_path = "path" THEN <<results>> ELSE <<>>
          /\ counts' = << [high_risk |-> CountCategory(results, "High Risk"),
                           medium_risk |-> CountCategory(results, "Medium Risk"),
                           low_risk |-> CountCategory(results, "Low Risk")] >>
          /\ IF Len(results) = 0
             THEN /\ error' = "ZeroDivisionError"
                  /\ returned' = <<"None">>
                  /\ summary' = <<>>
             ELSE /\ error' = ""
                  /\ returned' = <<"list", results>>
                  /\ summary' =
                       << [high |-> Percent(CountCategory(results, "High Risk"), Len(results)),
                           medium |-> Percent(CountCategory(results, "Medium Risk"), Len(results)),
                           low |-> Percent(CountCategory(results, "Low Risk"), Len(results))] >>
  /\ UNCHANGED <<alive, model, paths, call, df_len, idx, output_path, results, skipped>>

(* ------------------------------------------------------------------ *)
(* Specifications                                                      *)
(* ------------------------------------------------------------------ *)
Next ==
  \/ \E name \in ModelNames, ok \in BOOLEAN : load_model(name, ok)
  \/ \E patient_data \in SampleRecords, env \in Envs : PredictSingleCall(patient_data, env)
  \/ \E data \in WebPayloads, env \in Envs : predict(data, env)
  \/ \E n \in 0..MaxBatch, out \in {"none", "path"}, readable \in BOOLEAN :
       predict_batch_start(n, out, readable)
  \/ \E row \in BatchRows : predict_batch_row(row)
  \/ \E write_ok \in BOOLEAN : predict_batch_finish(write_ok)

Spec == Init /\ [][Next]_vars

(* validate_input as a function of its argument: the argument is any
   record of Records, the one step is the call *)
InitValidate ==
  /\ alive = TRUE
  /\ model \in ModelNames
  /\ paths = {}
  /\ call \in {[NoCall EXCEPT !.op = "validate_input", !.data = <<data>>,
                              !.ret = "called"] : data \in Records}
  /\ pc = "idle"
  /\ df_len = 0
  /\ idx = 0
  /\ output_path = "none"
  /\ results = <<>>
  /\ skipped = {}
  /\ persisted = <<>>
  /\ counts = <<>>
  /\ summary = <<>>
  /\ error = ""
  /\ returned = <<>>

ValidateInputCall ==
  /\ call.op = "validate_input"
  /\ call.ret = "called"
  /\ LET v == validate_input(call.data[1])
     IN  call' = [call EXCEPT !.ret = IF v.ok THEN "True" ELSE "False",
                              !.printed = v.printed]
  /\ UNCHANGED <<alive, model, paths, batchVars>>

NextValidate == ValidateInputCall

SpecValidate == InitValidate /\ [][NextValidate]_vars

(* ------------------------------------------------------------------ *)
(* Properties                                                          *)
(* ------------------------------------------------------------------ *)
SeqToSet(q) == {q[i] : i \in 1..Len(q)}

(* every result dict the state holds *)
AllResults ==
  SeqToSet(call.value) \cup SeqToSet(results)
  \cup (IF Len(persisted) = 1 THEN SeqToSet(persisted[1]) ELSE {})
  \cup (IF Len(returned) = 2 THEN SeqToSet(returned[2]) ELSE {})

(* predict_batch has returned and its loop consumed every row of df *)
FullPass == pc = "done" /\ error \notin {"read_csv", "inference"}

(* C1: after a full pass of predict_batch the rows that gave a result and
   the rows that gave None add up to the number of input rows, and the
   three category counts add up to the number of results. *)
C1_CountsPartition ==
  FullPass =>
    /\ idx = df_len
    /\ Len(results) + Cardinality(skipped) = df_len
    /\ Len(counts) = 1 =>
         counts[1].low_risk + counts[1].medium_risk + counts[1].high_risk = Len(results)

C1_Witness ==
  /\ FullPass
  /\ Len(counts) = 1
  /\ skipped # {}
  /\ counts[1].medium_risk = 1
  /\ counts[1].high_risk = 1

(* C2: a batch that ends its pass with no successful prediction gives a
   defined "no data" report and no division fault. *)
C2_NoDataReport ==
  (FullPass /\ Len(results) = 0 /\ error # "persist") =>
    /\ error # "ZeroDivisionError"
    /\ returned[1] = "list"

(* C3: a row that fails validation or whose inference raises does not
   abort the batch: every row of the input is processed and the batch
   returns its list of results. *)
C3_FailureIsolated ==
  (pc = "done" /\ error \notin {"read_csv", "persist", "ZeroDivisionError"}) =>
    /\ idx = df_len
    /\ returned[1] = "list"

(* C4: a failure while persisting the results does not invalidate them:
   predict_batch still returns the list of results. *)
C4_PersistFailureKeepsResults ==
  (pc = "done" /\ error = "persist") => returned = <<"list", results>>

(* C5: the identifiers the batch assigns are exactly 1..len(input), one
   per input row whether it succeeded or failed, and the result list is
   in input order. *)
C5_IdsCoverInput ==
  FullPass =>
    /\ {results[i].patient_id : i \in 1..Len(results)} = 1..df_len
    /\ \A i, j \in 1..Len(results) :
         i < j => results[i].patient_id < results[j].patient_id

(* C6: validate_input accepts a record exactly when all eight fields are
   present, numeric and within their inclusive bounds, and for a rejected
   record it reports a field that violates this, with the reason. *)
C6_ValidateAllOrNothing ==
  LET bound == [Pregnancies |-> <<0, 20>>, Glucose |-> <<50, 300>>,
                BloodPressure |-> <<40, 200>>, SkinThickness |-> <<0, 100>>,
                Insulin |-> <<0, 900>>, BMI |-> <<10, 60>>,
                DiabetesPedigreeFunction |-> <<0, 3>>, Age |-> <<10, 120>>]
      data == call.data[1]
      present(f) == f \in DOMAIN data
      numeric(f) == data[f].kind \in {"num", "nan"}
      within(f) == /\ data[f].kind = "num"
                   /\ bound[f][1] <= data[f].val
                   /\ data[f].val <= bound[f][2]
      good(f) == present(f) /\ numeric(f) /\ within(f)
  IN  (call.op = "validate_input" /\ call.ret # "called") =>
        /\ call.ret = "True" <=> \A f \in DOMAIN bound : good(f)
        /\ call.ret = "True" => call.printed = <<>>
        /\ call.ret = "False" =>
             /\ Len(call.printed) >= 2
             /\ call.printed[2] \in DOMAIN bound
             /\ ~good(call.printed[2])
             /\ call.printed[1] = "not_found" <=> ~present(call.printed[2])
             /\ call.printed[1] = "not_valid" =>
                  /\ call.printed[3] = data[call.printed[2]]
                  /\ <<call.printed[4], call.printed[5]>> = bound[call.printed[2]]

C6_Witness ==
  /\ call.op = "validate_input"
  /\ call.ret = "False"
  /\ call.printed[1] = "not_valid"
  /\ call.printed[2] = "Age"
  /\ call.printed[3] = Num(121)
  /\ "Glucose" \in DOMAIN call.data[1]
  /\ call.data[1]["Glucose"] = Num(300)

(* C7: predict_single goes validate, build, dispatch, score, categorize,
   recommend in that order and stops at the first stage that fails: a
   record that fails validation gives None without the classifier being
   called, a call whose scoring raises gives the exception and no result,
   and a result, when there is one, is complete. *)
C7_ShortCircuit ==
  LET order == <<"validate", "build", "decide", "transform", "score",
                 "categorize", "recommend", "assemble">>
      pos(s) == CHOOSE k \in 1..Len(order) : order[k] = s
      keys == {"prediction", "prediction_label", "probability",
               "risk_category", "risk_color", "recommendations"}
  IN  call.op \in {"predict_single", "predict"} =>
        /\ \A i \in 1..Len(call.stages) : call.stages[i] \in SeqToSet(order)
        /\ \A i, j \in 1..Len(call.stages) :
             i < j => pos(call.stages[i]) < pos(call.stages[j])
        /\ call.ret = "None" =>
             /\ call.value = <<>>
             /\ call.stages = <<"validate">>
             /\ call.passed = <<>>
        /\ call.ret \in {"raise", "error"} => call.value = <<>>
        /\ call.ret = "result" =>
             /\ Len(call.value) = 1
             /\ DOMAIN call.value[1] = keys
             /\ SeqToSet(order) \ {"transform"} \subseteq SeqToSet(call.stages)
             /\ call.env[1].clf = "ok"
             /\ "transform" \in SeqToSet(call.stages) => call.env[1].scaler = "ok"
        /\ call.op = "predict" =>
             /\ call.status = 200 <=> call.ret = "result"
             /\ call.status = 400 <=> (call.ret = "None" \/ (call.ret = "error" /\ call.body # "Prediction failed"))

C7_Witness ==
  /\ call.op = "predict"
  /\ call.ret = "raise"
  /\ call.status = 500
  /\ call.env[1].clf = "raise"
  /\ call.stages[Len(call.stages)] = "score"

(* C8: the category of every result is Low iff p < 0.30, Medium iff
   0.30 <= p < 0.70 and High iff p >= 0.70. *)
C8_Thresholds ==
  \A r \in AllResults :
    /\ r.risk_category = "Low Risk" <=> r.probability < 30
    /\ r.risk_category = "Medium Risk" <=> (30 <= r.probability /\ r.probability < 70)
    /\ r.risk_category = "High Risk" <=> 70 <= r.probability

C8_Witness ==
  /\ \E r \in SeqToSet(results) : r.probability = 30 /\ r.risk_category = "Medium Risk"
  /\ \E r \in SeqToSet(results) : r.probability = 70 /\ r.risk_category = "High Risk"
  /\ \E r \in SeqToSet(results) : r.probability = 29 /\ r.risk_category = "Low Risk"

(* C9, as stated: the scaling decision is made once, when the model is
   loaded, so no predict_single call makes it. *)
C9_DecidedAtLoadOnly ==
  \A i \in 1..Len(call.stages) : call.stages[i] # "decide"

(* C9, amended: every call on one loaded model hands the classifier the
   scaler-transformed vector if the model is a LogisticRegression or an
   SVC and the raw vector otherwise, so all calls since the load took the
   same path. *)
C9_SamePathPerLoadedModel ==
  LET path == IF model \in {"LogisticRegression", "SVC"} THEN "scaled" ELSE "raw"
  IN  /\ paths \subseteq {path}
      /\ \A i \in 1..Len(call.passed) : call.passed[i].scaled = (path = "scaled")
      /\ "transform" \in SeqToSet(call.stages) => path = "scaled"

C9_Witness ==
  /\ model = "SVC"
  /\ paths = {"scaled"}
  /\ Len(results) >= 2

(* C10: every recommendation list starts with the four base items in
   their fixed order, has 7 items for Low and 8 for Medium and High, the
   High list holds the specialist referral, and one category always gives
   one list. *)
C10_Recommendations ==
  LET base == << "Maintain healthy diet with balanced nutrition",
                 "Regular physical exercise (150 minutes/week)",
                 "Monitor blood glucose regularly",
                 "Maintain healthy weight" >>
      size == [c \in {"Low Risk", "Medium Risk", "High Risk"} |->
                 IF c = "Low Risk" THEN 7 ELSE 8]
      referral == "[!] Immediate consultation with endocrinologist recommended"
  IN  /\ \A r \in AllResults :
           /\ Len(r.recommendations) = size[r.risk_category]
           /\ SubSeq(r.recommendations, 1, 4) = base
           /\ \A i \in 5..Len(r.recommendations) : r.recommendations[i] \notin SeqToSet(base)
           /\ r.risk_category = "High Risk" => referral \in SeqToSet(r.recommendations)
      /\ \A r1, r2 \in AllResults :
           r1.risk_category = r2.risk_category => r1.recommendations = r2.recommendations

C10_Witness ==
  /\ Len(results) = 3
  /\ {results[i].risk_category : i \in 1..3} = {"Low Risk", "Medium Risk", "High Risk"}
  /\ Len(results[1].recommendations) + Len(results[2].recommendations)
       + Len(results[3].recommendations) = 23

====
